---- MODULE Spec2Model ----
(***************************************************************************)
(* Model of luakit's widget.c: the Lua-visible widget object, its one-time *)
(* type assignment, property read/write dispatch and collection.           *)
(***************************************************************************)
EXTENDS Integers, Sequences, FiniteSets, TLC

\* ---------------------------------------------------------------- bounds
\* other widgets (containers) and windows that can hold the widget
NumOthers == 2
NumWindows == 1

Others == 1..NumOthers
Windows == 1..NumWindows

\* the Lua object reference (w->ref, window->ref) kept for a native record
OtherRef(p) == 100 + p
WindowRef(n) == 200 + n
SelfRef == OtherRef(0)

\* ---------------------------------------------------------------- values
\* NULL pointer / absent string
NULL == "NULL"

\* Lua values that scripts hand to the widget class or get back from it.
StrVal(s) == [k |-> "str", s |-> s, i |-> 0]
NilVal == [k |-> "nil", s |-> "", i |-> 0]
ObjVal(kind, ref) == [k |-> kind, s |-> "", i |-> ref]
MethodVal(name) == [k |-> "method", s |-> name, i |-> 0]

\* strings a script assigns to 'type'
TypeStrings == {"webview", "notebook", "textarea", "hbox", "vbox",
                "parent", "button", ""}
TypeValues == {StrVal(s) : s \in TypeStrings} \cup {NilVal}
\* property names a script reads or writes
PropNames == {"type", "parent", "title", "add_signal", "zzz"}

\* luaL_checklstring: the argument must be a string (else it raises)
luaL_checklstring(v) == IF v.k = "str" THEN v.s ELSE NULL

\* l_tokenize: string -> token of the property/type name tables
l_tokenize(s) ==
    CASE s = "webview"  -> "L_TK_WEBVIEW"
      [] s = "notebook" -> "L_TK_NOTEBOOK"
      [] s = "textarea" -> "L_TK_TEXTAREA"
      [] s = "hbox"     -> "L_TK_HBOX"
      [] s = "vbox"     -> "L_TK_VBOX"
      [] s = "type"     -> "L_TK_TYPE"
      [] s = "parent"   -> "L_TK_PARENT"
      [] s = "title"    -> "L_TK_TITLE"
      [] OTHER          -> "L_TK_UNKNOWN"

\* ---------------------------------------------------------------- widget_t
\* The record the allocator hands out: every field cleared.
widget_new ==
    [st |-> "free", type |-> NULL, index |-> NULL, newindex |-> NULL,
     destructor |-> NULL, parent |-> 0, window |-> 0, ref |-> 0]

\* one logged step of a handler, with the widget fields visible at that step
Ev(e, c, wr) ==
    [e |-> e, c |-> c, type |-> wr.type, index |-> wr.index,
     newindex |-> wr.newindex, destructor |-> wr.destructor]

\* A backend constructor populates the dispatch pointers of the widget.
RunConstructor(c, wr) ==
    [wr EXCEPT !.index = c, !.newindex = c, !.destructor = c]

\* ---------------------------------------------------------------- set_type
\* variant: the guard is missing
AlreadyTyped_never(wr) == FALSE

\* variant: the guard looks at the parent pointer instead of the type name
AlreadyTyped_wrongField(wr) == wr.parent # 0

\* the guard of luaH_widget_set_type: the widget already has a type
AlreadyTyped(wr) == wr.type # NULL

\* variant: the default case falls through to a constructor
widget_constructor_default(tok) ==
    CASE tok = "L_TK_WEBVIEW"  -> "widget_webview"
      [] tok = "L_TK_NOTEBOOK" -> "widget_notebook"
      [] tok = "L_TK_TEXTAREA" -> "widget_textarea"
      [] tok = "L_TK_HBOX"     -> "widget_hbox"
      [] OTHER                 -> "widget_vbox"

\* variant: two cases of the switch exchanged
widget_constructor_swapped(tok) ==
    CASE tok = "L_TK_WEBVIEW"  -> "widget_webview"
      [] tok = "L_TK_NOTEBOOK" -> "widget_notebook"
      [] tok = "L_TK_TEXTAREA" -> "widget_textarea"
      [] tok = "L_TK_HBOX"     -> "widget_vbox"
      [] tok = "L_TK_VBOX"     -> "widget_hbox"
      [] OTHER                 -> NULL

\* the switch of luaH_widget_set_type: token -> constructor
widget_constructor(tok) ==
    CASE tok = "L_TK_WEBVIEW"  -> "widget_webview"
      [] tok = "L_TK_NOTEBOOK" -> "widget_notebook"
      [] tok = "L_TK_TEXTAREA" -> "widget_textarea"
      [] tok = "L_TK_HBOX"     -> "widget_hbox"
      [] tok = "L_TK_VBOX"     -> "widget_vbox"
      [] OTHER                 -> NULL

\* variant: "init" is emitted before the type name is stored
ConstructAndInit_early(wr, wc, type) ==
    LET w1 == RunConstructor(wc, wr)
        w2 == [w1 EXCEPT !.type = type]
    IN  [err |-> "ok", w |-> w2,
         ev |-> << Ev("ctor", wc, wr), Ev("init", "init", w1) >>]

\* the tail of luaH_widget_set_type: run the constructor, store the name,
\* emit "init"
ConstructAndInit(wr, wc, type) ==
    LET w1 == RunConstructor(wc, wr)
        w2 == [w1 EXCEPT !.type = type]
    IN  [err |-> "ok", w |-> w2,
         ev |-> << Ev("ctor", wc, wr), Ev("init", "init", w2) >>]

luaH_widget_set_type(wr, v) ==
    IF AlreadyTyped(wr)
    THEN [err |-> "already", w |-> wr, ev |-> << >>]
    ELSE IF luaL_checklstring(v) = NULL
    THEN [err |-> "badarg", w |-> wr, ev |-> << >>]
    ELSE LET type == luaL_checklstring(v)
             wc   == widget_constructor(l_tokenize(type))
         IN  IF wc = NULL
             THEN [err |-> "unknown", w |-> wr, ev |-> << >>]
             ELSE ConstructAndInit(wr, wc, type)

\* ---------------------------------------------------------------- getters
\* variant: the NULL check is missing
luaH_widget_get_type_unguarded(wr) == << StrVal(wr.type) >>

luaH_widget_get_type(wr) ==
    IF wr.type = NULL THEN << >> ELSE << StrVal(wr.type) >>

\* variant: the window is preferred to the parent
luaH_widget_get_parent_windowFirst(wr) ==
    IF wr.window # 0 THEN << ObjVal("window", WindowRef(wr.window)) >>
    ELSE IF wr.parent # 0 THEN << ObjVal("widget", OtherRef(wr.parent)) >>
    ELSE << >>

luaH_widget_get_parent(wr) ==
    IF wr.parent # 0 THEN << ObjVal("widget", OtherRef(wr.parent)) >>
    ELSE IF wr.window # 0 THEN << ObjVal("window", WindowRef(wr.window)) >>
    ELSE << >>

\* ---------------------------------------------------------------- class
\* widget_class_setup: the properties registered on the widget class
\* (the three callbacks of luaH_class_add_property, in argument order)
widget_class_setup ==
    [L_TK_PARENT |-> [cb1 |-> NULL, cb2 |-> "luaH_widget_get_parent",
                      cb3 |-> NULL],
     L_TK_TYPE   |-> [cb1 |-> "luaH_widget_set_type",
                      cb2 |-> "luaH_widget_get_type", cb3 |-> NULL]]

\* class-level read: methods of the class, then registered property getters
luaH_class_index(wr, name) ==
    LET tok == l_tokenize(name) IN
    IF name = "add_signal" THEN << MethodVal(name) >>
    ELSE IF tok \in DOMAIN widget_class_setup
    THEN LET g == widget_class_setup[tok].cb2 IN
         CASE g = "luaH_widget_get_type"   -> luaH_widget_get_type(wr)
           [] g = "luaH_widget_get_parent" -> luaH_widget_get_parent(wr)
           [] OTHER -> << >>
    ELSE << >>

\* class-level write: the setter registered for the property (first
\* callback), if any
luaH_class_newindex(wr, name, v) ==
    LET tok == l_tokenize(name) IN
    IF tok \in DOMAIN widget_class_setup
       /\ widget_class_setup[tok].cb1 = "luaH_widget_set_type"
    THEN luaH_widget_set_type(wr, v)
    ELSE [err |-> "ok", w |-> wr, ev |-> << >>]

\* a backend's index handler: answers its own properties only
BackendIndex(h, tok) ==
    IF tok = "L_TK_TITLE" THEN << StrVal(h) >> ELSE << >>

\* ---------------------------------------------------------------- handlers
\* variant: the widget's index pointer is consulted before the class
IndexDispatch_backendFirst(classret, wr, tok) ==
    IF wr.index # NULL
    THEN [ret |-> BackendIndex(wr.index, tok),
          calls |-> << [h |-> wr.index, tok |-> tok] >>]
    ELSE [ret |-> classret, calls |-> << >>]

\* luaH_widget_index: class lookup first, then the widget's index pointer
IndexDispatch(classret, wr, tok) ==
    IF classret # << >>
    THEN [ret |-> classret, calls |-> << >>]
    ELSE IF wr.index # NULL
    THEN [ret |-> BackendIndex(wr.index, tok),
          calls |-> << [h |-> wr.index, tok |-> tok] >>]
    ELSE [ret |-> << >>, calls |-> << >>]

luaH_widget_index(wr, name) ==
    IndexDispatch(luaH_class_index(wr, name), wr, l_tokenize(name))

\* variant: the newindex pointer is skipped when the class step did the work
NewindexDispatch_skipHandled(cls, tok) ==
    IF cls.err # "ok"
    THEN [err |-> cls.err, w |-> cls.w, ev |-> cls.ev, calls |-> << >>]
    ELSE IF cls.w.newindex # NULL /\ cls.ev = << >>
    THEN [err |-> "ok", w |-> cls.w, ev |-> cls.ev,
          calls |-> << [h |-> cls.w.newindex, tok |-> tok] >>]
    ELSE [err |-> "ok", w |-> cls.w, ev |-> cls.ev, calls |-> << >>]

\* luaH_widget_newindex: class setter first, then the newindex pointer of
\* the widget as it is after that step; an error raised by the class step
\* ends the handler
NewindexDispatch(cls, tok) ==
    IF cls.err # "ok"
    THEN [err |-> cls.err, w |-> cls.w, ev |-> cls.ev, calls |-> << >>]
    ELSE IF cls.w.newindex # NULL
    THEN [err |-> "ok", w |-> cls.w, ev |-> cls.ev,
          calls |-> << [h |-> cls.w.newindex, tok |-> tok] >>]
    ELSE [err |-> "ok", w |-> cls.w, ev |-> cls.ev, calls |-> << >>]

luaH_widget_newindex(wr, name, v) ==
    NewindexDispatch(luaH_class_newindex(wr, name, v), l_tokenize(name))

\* variant: the object is collected before the destructor runs
luaH_widget_gc_reversed(wr) ==
    IF wr.destructor # NULL
    THEN << Ev("objgc", "luaH_object_gc", wr), Ev("dtor", wr.destructor, wr) >>
    ELSE << Ev("objgc", "luaH_object_gc", wr) >>

\* luaH_widget_gc: destructor if installed, then luaH_object_gc
luaH_widget_gc(wr) ==
    IF wr.destructor # NULL
    THEN << Ev("dtor", wr.destructor, wr), Ev("objgc", "luaH_object_gc", wr) >>
    ELSE << Ev("objgc", "luaH_object_gc", wr) >>

\* luaH_class_new: allocate the object, then apply the 'type' entry of the
\* constructor table (opt = TRUE) through the registered setter
luaH_class_new(opt, v) ==
    IF opt /\ widget_class_setup["L_TK_TYPE"].cb1 = "luaH_widget_set_type"
    THEN luaH_widget_set_type(widget_new, v)
    ELSE [err |-> "ok", w |-> widget_new, ev |-> << >>]

\* the part of luaH_widget_new after luaH_class_new returned
NewFinish(wr) ==
    [wr EXCEPT !.parent = 0, !.window = 0, !.ref = SelfRef, !.st = "live"]

\* ---------------------------------------------------------------- state
VARIABLES
    widget,    \* the widget_t record of the widget
    hist,      \* constructor/init/destructor/collect steps run on it so far
    okval,     \* the string of its successful type assignment, if any
    failed,    \* the kinds of error its type assignments have raised
    last       \* the most recent handler invocation and what it did

vars == << widget, hist, okval, failed, last >>

NoOp ==
    [op |-> "none", name |-> "", val |-> NilVal,
     pre |-> widget_new, post |-> widget_new, err |-> "ok",
     ret |-> << >>, calls |-> << >>, ev |-> << >>]

Init ==
    /\ widget = widget_new
    /\ hist = << >>
    /\ okval = NULL
    /\ failed = {}
    /\ last = NoOp

\* bookkeeping shared by the handlers that may assign a type
Assigned(isType, v, r) ==
    /\ okval' = IF isType /\ r.err = "ok" THEN v.s ELSE okval
    /\ failed' = IF isType /\ r.err # "ok" THEN failed \cup {r.err} ELSE failed

\* widget{...} : luaH_widget_new
New(opt, v) ==
    /\ widget.st = "free"
    /\ LET r == luaH_class_new(opt, v)
           post == IF r.err = "ok" THEN NewFinish(r.w)
                   ELSE [r.w EXCEPT !.st = "orphan"]
       IN  /\ widget' = post
           /\ hist' = hist \o r.ev
           /\ Assigned(opt, v, r)
           /\ last' = [op |-> "new",
                       name |-> IF opt THEN "type" ELSE "",
                       val |-> IF opt THEN v ELSE NilVal,
                       pre |-> widget_new, post |-> post, err |-> r.err,
                       ret |-> << >>, calls |-> << >>, ev |-> r.ev]

\* w[name] : luaH_widget_index
Index(name) ==
    /\ widget.st = "live"
    /\ LET r == luaH_widget_index(widget, name)
       IN  last' = [op |-> "index", name |-> name, val |-> NilVal,
                    pre |-> widget, post |-> widget, err |-> "ok",
                    ret |-> r.ret, calls |-> r.calls, ev |-> << >>]
    /\ UNCHANGED << widget, hist, okval, failed >>

\* w[name] = v : luaH_widget_newindex
NewIndex(name, v) ==
    /\ widget.st = "live"
    /\ LET r == luaH_widget_newindex(widget, name, v)
       IN  /\ widget' = r.w
           /\ hist' = hist \o r.ev
           /\ Assigned(name = "type", v, r)
           /\ last' = [op |-> "newindex", name |-> name, val |-> v,
                       pre |-> widget, post |-> r.w, err |-> r.err,
                       ret |-> << >>, calls |-> r.calls, ev |-> r.ev]

\* __gc : luaH_widget_gc; the runtime collects an object once
Gc ==
    /\ widget.st \in {"live", "orphan"}
    /\ LET ev == luaH_widget_gc(widget)
           post == [widget EXCEPT !.st = "dead"]
       IN  /\ widget' = post
           /\ hist' = hist \o ev
           /\ last' = [op |-> "gc", name |-> "", val |-> NilVal,
                       pre |-> widget, post |-> post, err |-> "ok",
                       ret |-> << >>, calls |-> << >>, ev |-> ev]
    /\ UNCHANGED << okval, failed >>

\* a container backend adopts or releases the widget (p = 0 releases)
SetParent(p) ==
    /\ widget.st = "live"
    /\ widget.type # NULL
    /\ widget.parent # p
    /\ widget' = [widget EXCEPT !.parent = p]
    /\ UNCHANGED << hist, okval, failed, last >>

\* a window takes or drops the widget as its content (n = 0 drops)
SetWindow(n) ==
    /\ widget.st = "live"
    /\ widget.type # NULL
    /\ widget.window # n
    /\ widget' = [widget EXCEPT !.window = n]
    /\ UNCHANGED << hist, okval, failed, last >>

Next ==
    \/ \E opt \in BOOLEAN, v \in TypeValues :
          /\ (~opt => v = NilVal)
          /\ New(opt, v)
    \/ \E name \in PropNames : Index(name)
    \/ \E name \in PropNames, v \in TypeValues :
          /\ (name # "type" => v = NilVal)
          /\ NewIndex(name, v)
    \/ Gc
    \/ \E p \in Others \cup {0} : SetParent(p)
    \/ \E n \in Windows \cup {0} : SetWindow(n)

Spec == Init /\ [][Next]_vars

\* ---------------------------------------------------------------- properties
FiveTypes == {"webview", "notebook", "textarea", "hbox", "vbox"}

\* the constructor each type name stands for
ConstructorFor ==
    [webview |-> "widget_webview", notebook |-> "widget_notebook",
     textarea |-> "widget_textarea", hbox |-> "widget_hbox",
     vbox |-> "widget_vbox"]

IsCtor(e) == e.e = "ctor"
IsInit(e) == e.e = "init"
IsDtor(e) == e.e = "dtor"
IsObjGc(e) == e.e = "objgc"
Steps(evs) == [i \in DOMAIN evs |-> << evs[i].e, evs[i].c >>]

\* the last handler was an assignment of 'type' (by write or at creation)
TypeAssign == last.op \in {"new", "newindex"} /\ last.name = "type"
HandlersOf(wr) == << wr.index, wr.newindex, wr.destructor >>

\* C1: once the type name holds a value, no step changes it or unsets it
\* (so it goes from unset to a value at most once).
C1_TypeSetOnce ==
    [][widget.type # NULL => widget'.type = widget.type]_vars

\* C1 witness: a typed widget on which a further write of 'type' was tried
C1_Witness ==
    /\ last.op = "newindex" /\ last.name = "type"
    /\ last.pre.type \in FiveTypes
    /\ last.val.s \in FiveTypes \ {last.pre.type}
    /\ widget.type = last.pre.type

C4_OneConstructor ==
    /\ (TypeAssign /\ last.err = "ok") =>
          /\ last.val.s \in FiveTypes
          /\ Steps(SelectSeq(last.ev, IsCtor))
                = << << "ctor", ConstructorFor[last.val.s] >> >>
    /\ IF okval = NULL
       THEN SelectSeq(hist, IsCtor) = << >>
       ELSE /\ okval \in FiveTypes
            /\ Steps(SelectSeq(hist, IsCtor))
                  = << << "ctor", ConstructorFor[okval] >> >>

\* C4 witness: a vbox was assigned and later operations followed
C4_Witness ==
    /\ okval = "vbox"
    /\ last.op = "newindex" /\ last.err # "ok"

\* C5: reading 'type' yields nothing while no assignment has succeeded, and
\* exactly the assigned name after one has.
C5_TypeRead ==
    (last.op = "index" /\ last.name = "type") =>
        IF okval = NULL THEN last.ret = << >>
        ELSE last.ret = << StrVal(okval) >>

\* C5 witness: a read of 'type' after a refused and then a successful
\* assignment
C5_Witness ==
    /\ last.op = "index" /\ last.name = "type"
    /\ failed # {} /\ okval \in FiveTypes
    /\ last.ret = << StrVal(okval) >>

\* C6: "init" is emitted at most once, only by a successful type assignment,
\* after the constructor step, and what it observes is a widget with its type
\* name stored and its backend handlers installed.
C6_InitOnce ==
    /\ Len(SelectSeq(hist, IsInit)) <= 1
    /\ SelectSeq(last.ev, IsInit) # << >> => (TypeAssign /\ last.err = "ok")
    /\ (TypeAssign /\ last.err = "ok") => Len(SelectSeq(last.ev, IsInit)) = 1
    /\ \A i \in DOMAIN hist :
          IsInit(hist[i]) =>
             /\ \E j \in 1..(i - 1) : IsCtor(hist[j])
             /\ hist[i].type = okval /\ okval # NULL
             /\ hist[i].index # NULL
             /\ hist[i].newindex # NULL
             /\ hist[i].destructor # NULL

\* C6 witness: a refused assignment follows the one that emitted "init"
C6_Witness ==
    /\ Len(SelectSeq(hist, IsInit)) = 1
    /\ TypeAssign /\ last.err = "already"

\* C7: reading 'parent' yields the parent's object when a parent is set, the
\* window's object only when no parent is set and a window is, and nothing
\* when neither is set; a freshly created widget has neither.
C7_ParentRead ==
    /\ (last.op = "index" /\ last.name = "parent") =>
          /\ last.pre.parent # 0 =>
                last.ret = << ObjVal("widget", OtherRef(last.pre.parent)) >>
          /\ (last.pre.parent = 0 /\ last.pre.window # 0) =>
                last.ret = << ObjVal("window", WindowRef(last.pre.window)) >>
          /\ (last.pre.parent = 0 /\ last.pre.window = 0) =>
                last.ret = << >>
    /\ (last.op = "new" /\ last.err = "ok") =>
          /\ last.post.parent = 0 /\ last.post.window = 0
          /\ luaH_widget_index(last.post, "parent").ret = << >>

\* C7 witness: 'parent' read on a widget that has both a parent and a window
C7_Witness ==
    /\ last.op = "index" /\ last.name = "parent"
    /\ last.pre.parent # 0 /\ last.pre.window # 0
    /\ last.ret # << >>

\* C8: on a read, a value found at class level is returned without calling
\* the widget's index handler; the handler is called, once and with the
\* token of the name, only when the class finds nothing and the widget has
\* one; without one the read yields nothing.
C8_IndexDispatch ==
    last.op = "index" =>
        LET cls == luaH_class_index(last.pre, last.name) IN
        /\ cls # << >> => (last.ret = cls /\ last.calls = << >>)
        /\ (cls = << >> /\ last.pre.index # NULL) =>
              last.calls = << [h |-> last.pre.index,
                               tok |-> l_tokenize(last.name)] >>
        /\ (cls = << >> /\ last.pre.index = NULL) =>
              (last.ret = << >> /\ last.calls = << >>)
        /\ last.pre.type = NULL => last.pre.index = NULL

\* C8 witness: a typed widget whose 'type' read was answered by the class
C8_Witness ==
    /\ last.op = "index" /\ last.name = "type"
    /\ last.pre.index # NULL
    /\ last.ret # << >> /\ last.calls = << >>

C10_GcDestructor ==
    /\ last.op = "gc" =>
          /\ last.pre.destructor # NULL =>
                Steps(last.ev) = << << "dtor", last.pre.destructor >>,
                                    << "objgc", "luaH_object_gc" >> >>
          /\ last.pre.destructor = NULL =>
                Steps(last.ev) = << << "objgc", "luaH_object_gc" >> >>
          /\ (last.pre.destructor # NULL) <=> (okval # NULL)
    /\ Len(SelectSeq(hist, IsDtor)) <= 1
    /\ Len(SelectSeq(hist, IsObjGc)) <= 1
    /\ SelectSeq(hist, IsDtor) # << >> => widget.st = "dead"

\* C10 witness: a typed widget was collected
C10_Witness ==
    /\ last.op = "gc" /\ last.pre.destructor # NULL
    /\ widget.st = "dead"

====
